---------------------------- MODULE Spec2Model ----------------------------
(***************************************************************************)
(* Si4703 FM receiver driver (src/si4703/Si4703.cpp, Si4703.h) as a state  *)
(* machine: the driver's fields and 16-word register shadow, the chip's    *)
(* register file on the other end of the two-wire bus, and one step per    *)
(* bus transaction of every public operation.  The chip runs concurrently  *)
(* with the driver (seek/tune completion), so an operation is split at its *)
(* bus transactions; everything between two transactions is local to the   *)
(* driver and belongs to the step of the transaction that follows it.      *)
(*                                                                         *)
(* Words are 16-bit integers, bit fields are taken with div/mod at the     *)
(* offsets the header declares (first declared field = least significant,  *)
(* as GCC lays bit-fields out on AVR/ESP32).  The two Wire.read() calls of *)
(* getShadow are taken in source order (left operand first).               *)
(***************************************************************************)
EXTENDS Integers, Sequences, FiniteSets, TLC

(***************************************************************************)
(* Bounds of the model (not program constants).                            *)
(***************************************************************************)
\* Public calls made on one controller in one run, the first start included.
MaxCalls == 3
\* The same for a controller constructed with a band or spacing selector
\* that setRegion does not know.
MaxCallsOutOfRange == 2
\* setChannel calls with an arbitrary argument in one run.
MaxTunes == 1

(***************************************************************************)
(* Program constants, Si4703.h.                                            *)
(***************************************************************************)
BAND_US_EU   == 0
BAND_JPW     == 1
BAND_JP      == 2
SPACE_200KHz == 0
SPACE_100KHz == 1
SPACE_50KHz  == 2
DE_75us      == 0
GPIO1        == 1
GPIO2        == 2
GPIO3        == 3
GPIO_Z       == 0
GPIO_I       == 1
GPIO_Low     == 2
GPIO_High    == 3
SKMODE_STOP  == 1
SKSNR_MAX    == 15
SKCNT_MIN    == 15
SMA_16dB     == 0
SMRR_Fastest == 0
BLA_31_49    == 0
SEEK_DOWN    == 0
SEEK_UP      == 1

\* Constructor arguments left at the header's defaults (Si4703.h 118-125).
_de     == DE_75us
_skmode == SKMODE_STOP
_seekth == 24
_skcnt  == SKCNT_MIN
_sksnr  == SKSNR_MAX
_agcd   == 0

(***************************************************************************)
(* Register shadow layout: union shadow_t and the register unions.         *)
(***************************************************************************)
\* Position of each register in shadow.word[], the declaration order of
\* struct reg.
Idx ==
    [STATUSRSSI |-> 0, READCHAN |-> 1, RDSA |-> 2, RDSB |-> 3, RDSC |-> 4,
     RDSD |-> 5, DEVICEID |-> 6, CHIPID |-> 7, POWERCFG |-> 8, CHANNEL |-> 9,
     SYSCONFIG1 |-> 10, SYSCONFIG2 |-> 11, SYSCONFIG3 |-> 12, TEST1 |-> 13,
     TEST2 |-> 14, BOOTCONFIG |-> 15]

\* Device register address of each register (the 0x.. comments of struct reg).
Addr ==
    [STATUSRSSI |-> 10, READCHAN |-> 11, RDSA |-> 12, RDSB |-> 13, RDSC |-> 14,
     RDSD |-> 15, DEVICEID |-> 0, CHIPID |-> 1, POWERCFG |-> 2, CHANNEL |-> 3,
     SYSCONFIG1 |-> 4, SYSCONFIG2 |-> 5, SYSCONFIG3 |-> 6, TEST1 |-> 7,
     TEST2 |-> 8, BOOTCONFIG |-> 9]

RegNames == DOMAIN Idx

\* Bit fields: register, offset of the least significant bit, width.
Layout ==
    [MFGID    |-> <<"DEVICEID", 0, 12>>,  PN       |-> <<"DEVICEID", 12, 4>>,
     FIRMWARE |-> <<"CHIPID", 0, 6>>,     DEV      |-> <<"CHIPID", 6, 4>>,
     REV      |-> <<"CHIPID", 10, 6>>,
     ENABLE   |-> <<"POWERCFG", 0, 1>>,   DISABLE  |-> <<"POWERCFG", 6, 1>>,
     SEEK     |-> <<"POWERCFG", 8, 1>>,   SEEKUP   |-> <<"POWERCFG", 9, 1>>,
     SKMODE   |-> <<"POWERCFG", 10, 1>>,  RDSM     |-> <<"POWERCFG", 11, 1>>,
     MONO     |-> <<"POWERCFG", 13, 1>>,  DMUTE    |-> <<"POWERCFG", 14, 1>>,
     DSMUTE   |-> <<"POWERCFG", 15, 1>>,
     CHAN     |-> <<"CHANNEL", 0, 10>>,   TUNE     |-> <<"CHANNEL", 15, 1>>,
     GPIO1    |-> <<"SYSCONFIG1", 0, 2>>, GPIO2    |-> <<"SYSCONFIG1", 2, 2>>,
     GPIO3    |-> <<"SYSCONFIG1", 4, 2>>, BLNDADJ  |-> <<"SYSCONFIG1", 6, 2>>,
     AGCD     |-> <<"SYSCONFIG1", 10, 1>>, DE      |-> <<"SYSCONFIG1", 11, 1>>,
     RDS      |-> <<"SYSCONFIG1", 12, 1>>, STCIEN  |-> <<"SYSCONFIG1", 14, 1>>,
     RDSIEN   |-> <<"SYSCONFIG1", 15, 1>>,
     VOLUME   |-> <<"SYSCONFIG2", 0, 4>>, SPACE    |-> <<"SYSCONFIG2", 4, 2>>,
     BAND     |-> <<"SYSCONFIG2", 6, 2>>, SEEKTH   |-> <<"SYSCONFIG2", 8, 8>>,
     SKCNT    |-> <<"SYSCONFIG3", 0, 4>>, SKSNR    |-> <<"SYSCONFIG3", 4, 4>>,
     VOLEXT   |-> <<"SYSCONFIG3", 8, 1>>, SMUTEA   |-> <<"SYSCONFIG3", 12, 2>>,
     SMUTER   |-> <<"SYSCONFIG3", 14, 2>>,
     AHIZEN   |-> <<"TEST1", 14, 1>>,     XOSCEN   |-> <<"TEST1", 15, 1>>,
     RSSI     |-> <<"STATUSRSSI", 0, 8>>, ST       |-> <<"STATUSRSSI", 8, 1>>,
     SFBL     |-> <<"STATUSRSSI", 13, 1>>, STC     |-> <<"STATUSRSSI", 14, 1>>,
     READCHAN |-> <<"READCHAN", 0, 10>>]

Pow2(n) ==
    <<1, 2, 4, 8, 16, 32, 64, 128, 256, 512, 1024, 2048, 4096, 8192, 16384,
      32768, 65536>>[n + 1]

\* Reading a bit field of a word.
FieldOf(w, f) ==
    (w \div Pow2(Layout[f][2])) % Pow2(Layout[f][3])

\* Assigning an int to a bit field of a word: the value is cut to the width.
WithField(w, f, v) ==
    w - FieldOf(w, f) * Pow2(Layout[f][2])
      + (v % Pow2(Layout[f][3])) * Pow2(Layout[f][2])

\* shadow.reg.<R>.bits.<f> as an rvalue.
Get(sh, f) ==
    FieldOf(sh[Idx[Layout[f][1]]], f)

\* shadow.reg.<R>.bits.<f> = v.
Put(sh, f, v) ==
    [sh EXCEPT ![Idx[Layout[f][1]]] = WithField(@, f, v)]

\* A bit field of the chip's register file, by register address.
DevGet(d, f) ==
    FieldOf(d[Addr[Layout[f][1]]], f)

DevPut(d, f, v) ==
    [d EXCEPT ![Addr[Layout[f][1]]] = WithField(@, f, v)]

Bool2Int(b) ==
    IF b THEN 1 ELSE 0

Min(a, b) ==
    IF a < b THEN a ELSE b

Max(a, b) ==
    IF a > b THEN a ELSE b

(***************************************************************************)
(* Register shadow I/O.                                                    *)
(***************************************************************************)
\* Variant of getShadow: the low byte taken first.
getShadow_lowFirst(bytes) ==
    [i \in 0 .. 15 |-> bytes[2 * i + 2] * 256 + bytes[2 * i + 1]]

\* getShadow: 16 words out of the 32 bytes received, high byte first.
getShadow(bytes) ==
    [i \in 0 .. 15 |-> bytes[2 * i + 1] * 256 + bytes[2 * i + 2]]

\* Variant of putShadow: the loop runs on to the end of the shadow, i = 8..15.
putShadow_toEnd(sh) ==
    [k \in 1 .. 16 |->
        LET i == 8 + (k - 1) \div 2
        IN  IF k % 2 = 1 THEN sh[i] \div 256 ELSE sh[i] % 256]

\* Variant of putShadow: the loop takes the words at i = 2..7.
putShadow_from2(sh) ==
    [k \in 1 .. 12 |->
        LET i == 2 + (k - 1) \div 2
        IN  IF k % 2 = 1 THEN sh[i] \div 256 ELSE sh[i] % 256]

\* putShadow: the bytes handed to Wire.write, shadow.word[8..13], high byte
\* first.
putShadow(sh) ==
    [k \in 1 .. 12 |->
        LET i == 8 + (k - 1) \div 2
        IN  IF k % 2 = 1 THEN sh[i] \div 256 ELSE sh[i] % 256]

(***************************************************************************)
(* Band and channel arithmetic.                                            *)
(***************************************************************************)
\* C's int division: the quotient is cut toward zero.
CDiv(a, b) ==
    IF (a >= 0) = (b > 0)
    THEN (IF a >= 0 THEN a ELSE -a) \div (IF b > 0 THEN b ELSE -b)
    ELSE -((IF a >= 0 THEN a ELSE -a) \div (IF b > 0 THEN b ELSE -b))

\* setRegion, first switch: the band's lower limit (cur: the field as it
\* was, kept by the default branch).
setRegionStart(band, cur) ==
    CASE band = BAND_US_EU -> 8750
      [] band = BAND_JPW   -> 7600
      [] band = BAND_JP    -> 7600
      [] OTHER             -> cur

\* Variant of setRegionEnd: the Japan band ends where the wide band does.
setRegionEnd_jpWide(band, cur) ==
    CASE band = BAND_US_EU -> 10800
      [] band = BAND_JPW   -> 10800
      [] band = BAND_JP    -> 10800
      [] OTHER             -> cur

\* setRegion, first switch: the band's upper limit.
setRegionEnd(band, cur) ==
    CASE band = BAND_US_EU -> 10800
      [] band = BAND_JPW   -> 10800
      [] band = BAND_JP    -> 9000
      [] OTHER             -> cur

\* Variant of setRegionSpacing: the 50 kHz spacing is counted in 20 kHz steps.
setRegionSpacing_fine(space, cur) ==
    CASE space = SPACE_100KHz -> 10
      [] space = SPACE_200KHz -> 20
      [] space = SPACE_50KHz  -> 2
      [] OTHER                -> cur

\* setRegion, second switch: the channel spacing in 10 kHz units.
setRegionSpacing(space, cur) ==
    CASE space = SPACE_100KHz -> 10
      [] space = SPACE_200KHz -> 20
      [] space = SPACE_50KHz  -> 5
      [] OTHER                -> cur

\* Variant of ClampFreq: the lower limit is not applied.
ClampFreq_upperOnly(f, bandStart, bandEnd) ==
    IF f > bandEnd THEN bandEnd ELSE f

\* setChannel's clamp: the upper limit is applied first, the lower last.
ClampFreq(f, bandStart, bandEnd) ==
    LET f1 == IF f > bandEnd THEN bandEnd ELSE f
    IN  IF f1 < bandStart THEN bandStart ELSE f1

\* Variant of ChanOf: the quotient is rounded up.
ChanOf_roundUp(f, bandStart, bandSpacing) ==
    CDiv(f - bandStart + bandSpacing - 1, bandSpacing)

\* setChannel: the channel index of a clamped frequency (spacing # 0).
ChanOf(f, bandStart, bandSpacing) ==
    CDiv(f - bandStart, bandSpacing)

\* Variant of FreqOf: the offset from the bottom of the band.
FreqOf_noStart(sh, bandStart, bandSpacing) ==
    bandSpacing * Get(sh, "READCHAN")

\* getChannel: Freq = Spacing * Channel + Bottom of Band.
FreqOf(sh, bandStart, bandSpacing) ==
    bandSpacing * Get(sh, "READCHAN") + bandStart

\* Variant of ClampVolume: the upper limit is not applied.
ClampVolume_lowerOnly(volume) ==
    IF volume < 0 THEN 0 ELSE volume

\* setVolume's clamp.
ClampVolume(volume) ==
    LET v1 == IF volume < 0 THEN 0 ELSE volume
    IN  IF v1 > 15 THEN 15 ELSE v1

(***************************************************************************)
(* Register mutations of the operations, each on the shadow just read.     *)
(***************************************************************************)
\* Variant of powerUpOsc: the device is enabled in the same write.
powerUpOsc_withEnable(sh) ==
    Put(Put(sh, "XOSCEN", 1), "ENABLE", 1)

\* powerUp, first half: enable the oscillator.
powerUpOsc(sh) ==
    Put(sh, "XOSCEN", 1)

\* powerUp, second half: enable the device.
powerUpEnable(sh) ==
    Put(Put(Put(sh, "ENABLE", 1), "DISABLE", 0), "DMUTE", 1)

\* Variant of powerDownRegs: DISABLE is left as read.
powerDownRegs_noDisable(sh) ==
    LET s1 == Put(sh, "AHIZEN", 1)
        s2 == Put(Put(Put(s1, "GPIO1", GPIO_Z), "GPIO2", GPIO_Z), "GPIO3", GPIO_Z)
    IN  Put(Put(s2, "DMUTE", 0), "ENABLE", 1)

\* powerDown: high-impedance audio and GPIOs, mute, ENABLE = DISABLE = 1.
powerDownRegs(sh) ==
    LET s1 == Put(sh, "AHIZEN", 1)
        s2 == Put(Put(Put(s1, "GPIO1", GPIO_Z), "GPIO2", GPIO_Z), "GPIO3", GPIO_Z)
    IN  Put(Put(Put(s2, "DMUTE", 0), "ENABLE", 1), "DISABLE", 1)

\* start: the combined configuration written after powerUp.
startRegs(sh, band, space) ==
    LET s1 == Put(Put(Put(sh, "SPACE", space), "BAND", band), "DE", _de)
        s2 == Put(s1, "STCIEN", 0)
        s3 == Put(Put(Put(s2, "SEEK", 0), "SEEKUP", 1), "SKMODE", _skmode)
        s4 == Put(Put(Put(Put(s3, "SEEKTH", _seekth), "SKCNT", _skcnt),
                      "SKSNR", _sksnr), "AGCD", _agcd)
        s5 == Put(Put(Put(s4, "RDSIEN", 0), "RDSM", 0), "RDS", 1)
        s6 == Put(Put(Put(Put(Put(s5, "AHIZEN", 0), "MONO", 0),
                          "BLNDADJ", BLA_31_49), "VOLUME", 0), "VOLEXT", 0)
        s7 == Put(Put(Put(s6, "DSMUTE", 1), "SMUTEA", SMA_16dB),
                  "SMUTER", SMRR_Fastest)
    IN  Put(Put(Put(s7, "GPIO1", GPIO_Z), "GPIO2", GPIO_Z), "GPIO3", GPIO_Z)

\* Variant of setMonoRegs: the volume is put back to 0 as well.
setMonoRegs_resetVolume(sh, en) ==
    Put(Put(sh, "MONO", en), "VOLUME", 0)

setMonoRegs(sh, en) ==
    Put(sh, "MONO", en)

\* Variant of setMuteRegs: the bit written is the complement of en.
setMuteRegs_inverted(sh, en) ==
    Put(sh, "DMUTE", 1 - en)

setMuteRegs(sh, en) ==
    Put(sh, "DMUTE", en)

setVolExtRegs(sh, en) ==
    Put(sh, "VOLEXT", en)

setVolumeRegs(sh, volume) ==
    Put(sh, "VOLUME", ClampVolume(volume))

\* Variant of writeGPIORegs: the mode goes to all three pins.
writeGPIORegs_allPins(sh, gpio, val) ==
    Put(Put(Put(sh, "GPIO1", val), "GPIO2", val), "GPIO3", val)

writeGPIORegs(sh, gpio, val) ==
    CASE gpio = GPIO1 -> Put(sh, "GPIO1", val)
      [] gpio = GPIO2 -> Put(sh, "GPIO2", val)
      [] gpio = GPIO3 -> Put(sh, "GPIO3", val)
      [] OTHER        -> sh

\* setChannel: the tune command.
tuneRegs(sh, chan) ==
    Put(Put(sh, "CHAN", chan), "TUNE", 1)

\* seek: the seek command.
seekRegs(sh, seekDirection) ==
    Put(Put(sh, "SEEKUP", seekDirection), "SEEK", 1)

\* The value a read-only accessor returns from the shadow it just read.
GetterField ==
    [getMono |-> "MONO", getMute |-> "DMUTE", getVolExt |-> "VOLEXT",
     getST |-> "ST", getRSSI |-> "RSSI", getPN |-> "PN", getMFGID |-> "MFGID",
     getREV |-> "REV", getDEV |-> "DEV", getFIRMWARE |-> "FIRMWARE"]

Getters == DOMAIN GetterField

(***************************************************************************)
(* The chip: its register file by address, as the driver's transactions    *)
(* see it.                                                                 *)
(***************************************************************************)
\* Register file after a reset pulse: device id 0x1242, chip id of a
\* powered-down Si4703 (0x1200), TEST1 0x0100, everything else 0.
DevReset ==
    [a \in 0 .. 15 |->
        CASE a = 0 -> 4674
          [] a = 1 -> 4608
          [] a = 7 -> 256
          [] OTHER -> 0]

DevPowered(d) ==
    DevGet(d, "ENABLE") = 1 /\ DevGet(d, "DISABLE") = 0

\* A block read of 32 bytes: the chip starts at register 0x0A, high byte
\* first, and wraps from 0x0F to 0x00.
DevRead(d) ==
    [k \in 1 .. 32 |->
        LET a == (10 + (k - 1) \div 2) % 16
        IN  IF k % 2 = 1 THEN d[a] \div 256 ELSE d[a] % 256]

\* A block write: the chip stores the words from register 0x02 upward; the
\* chip id shows device and firmware only while powered up.
DevWrite(d, bytes) ==
    LET n  == Len(bytes) \div 2
        d1 == [a \in 0 .. 15 |->
                 IF a >= 2 /\ a < 2 + n
                 THEN bytes[2 * (a - 2) + 1] * 256 + bytes[2 * (a - 2) + 2]
                 ELSE d[a]]
    IN  [d1 EXCEPT ![1] = IF DevPowered(d1) THEN 4691 ELSE 4608]

(***************************************************************************)
(* State.                                                                  *)
(***************************************************************************)
VARIABLES
    _band, _space,                      \* constructor arguments
    _bandStart, _bandEnd, _bandSpacing, \* set by setRegion only
    shadow,                             \* shadow.word[0..15]
    wireBegun,                          \* bus2Wire has run (Wire.begin)
    pc,                                 \* the driver's position
    op, arg, arg2,                      \* the public call in progress
    freq, volume, sfbl,                 \* locals of setChannel/setVolume/seek
    ret,                                \* the value being returned
    ncalls,                             \* public calls made so far
    dev,                                \* the chip's registers 0x00..0x0F
    lastTx,                             \* the last bus transaction
    devAtRead,                          \* the chip's registers at the last read
    started,                            \* start has completed at least once
    afterDown,                          \* history: powerDown and what followed
    lastSet,                            \* history: argument of the call just
                                        \* returned, if it was setChannel
    lastDone,                           \* history: the call just returned, if
                                        \* it was start, powerDown or setMute
    busLog                              \* history: the bus transactions of the
                                        \* call in progress, repeated reads once

vars ==
    <<_band, _space, _bandStart, _bandEnd, _bandSpacing, shadow, wireBegun,
      pc, op, arg, arg2, freq, volume, sfbl, ret, ncalls, dev, lastTx,
      devAtRead, started, afterDown, lastSet, lastDone, busLog>>

ctorVars  == <<_band, _space>>
bandVars  == <<_bandStart, _bandEnd, _bandSpacing>>
callVars  == <<op, arg, arg2>>
localVars == <<freq, volume, sfbl>>
histVars  == <<started, afterDown, lastSet, lastDone>>

\* The selector values the model constructs controllers with: the three
\* named ones and the remaining value of the 2-bit register field.
Selectors == 0 .. 3

ValidBand(b) == b \in {BAND_US_EU, BAND_JPW, BAND_JP}

ValidSpace(s) == s \in {SPACE_200KHz, SPACE_100KHz, SPACE_50KHz}

\* What an int member the constructor never assigns may hold: 0 for an
\* object in static storage, anything (here one sample) otherwise.
Indeterminate == {0, 9000}

\* The controllers the model constructs: every band and every spacing once,
\* and each selector out of range, alone and together.
Configs ==
    {<<BAND_US_EU, SPACE_100KHz>>, <<BAND_JPW, SPACE_200KHz>>,
     <<BAND_JP, SPACE_50KHz>>,
     <<3, SPACE_100KHz>>, <<BAND_US_EU, 3>>, <<3, 3>>}

\* The state the constructor leaves, for a controller built with one of the
\* selector pairs cfgs.
Constructed(cfgs) ==
    /\ _band \in Selectors
    /\ _space \in Selectors
    /\ <<_band, _space>> \in cfgs
    /\ _bandStart \in Indeterminate
    /\ _bandEnd \in Indeterminate
    /\ _bandSpacing \in Indeterminate
    /\ shadow = [i \in 0 .. 15 |-> 0]
    /\ wireBegun = FALSE
    /\ pc = "idle"
    /\ op = "none"
    /\ arg = 0
    /\ arg2 = 0
    /\ freq = 0
    /\ volume = 0
    /\ sfbl = FALSE
    /\ ret = 0
    /\ ncalls = 0
    /\ dev = DevReset
    /\ lastTx = [kind |-> "none", bytes |-> <<>>]
    /\ devAtRead = DevReset
    /\ started = FALSE
    /\ afterDown = "no"
    /\ lastSet = {}
    /\ lastDone = <<"none", 0>>
    /\ busLog = <<>>

Init == Constructed(Configs)

(***************************************************************************)
(* Bus transactions.                                                       *)
(***************************************************************************)
\* The log with one more transaction; a read that repeats the transaction
\* before it (a poll that saw nothing new) is kept once.
Logged(log, tx) ==
    IF log # <<>> /\ tx.kind = "read" /\ log[Len(log)] = tx
    THEN log
    ELSE Append(log, tx)

\* getShadow(): Wire.requestFrom(I2C_ADDR, 32) and the 16 word reads.
BusRead ==
    /\ shadow' = getShadow(DevRead(dev))
    /\ lastTx' = [kind |-> "read", bytes |-> DevRead(dev)]
    /\ busLog' = Logged(busLog, [kind |-> "read", bytes |-> DevRead(dev)])
    /\ devAtRead' = dev
    /\ dev' = dev

\* The field assignments that give sh, then putShadow().
BusWrite(sh) ==
    /\ shadow' = sh
    /\ lastTx' = [kind |-> "write", bytes |-> putShadow(sh)]
    /\ busLog' = Logged(busLog, [kind |-> "write", bytes |-> putShadow(sh)])
    /\ dev' = DevWrite(dev, putShadow(sh))
    /\ devAtRead' = devAtRead

(***************************************************************************)
(* Public calls.                                                           *)
(***************************************************************************)
\* setChannel arguments: on and next to both band edges, and the two
\* frequencies of the documented scenario.
FreqArgs ==
    {_bandStart + d : d \in {-1, 0, 1}} \cup {_bandEnd + d : d \in {-1, 0, 1}}
    \cup {9870, 9871}

\* setVolume arguments: below, at and above both ends of 0..15.
VolArgs == {-5, -1, 0, 15, 16, 99}

\* writeGPIO arguments: each of the three pins, and a pin number the switch
\* ignores.
GpioArgs ==
    {<<GPIO1, GPIO_Low>>, <<GPIO2, GPIO_High>>, <<GPIO3, GPIO_I>>,
     <<0, GPIO_High>>}

NoArgOps ==
    {"start", "powerUp", "powerDown", "getChannel", "incChannel", "decChannel",
     "seekUp", "seekDown", "getVolume", "incVolume", "decVolume",
     "getBandStart", "getBandEnd", "getBandSpace"} \cup Getters

BandGetters == {"getBandStart", "getBandEnd", "getBandSpace"}

Calls ==
    {[op |-> o, arg |-> 0, arg2 |-> 0] : o \in NoArgOps}
    \cup {[op |-> "setChannel", arg |-> f, arg2 |-> 0] : f \in FreqArgs}
    \cup {[op |-> "setVolume", arg |-> v, arg2 |-> 0] : v \in VolArgs}
    \cup {[op |-> o, arg |-> en, arg2 |-> 0] :
            o \in {"setMono", "setMute", "setVolExt"}, en \in {0, 1}}
    \cup {[op |-> "writeGPIO", arg |-> a[1], arg2 |-> a[2]] : a \in GpioArgs}

\* Where each public function begins.
Entry(o) ==
    CASE o = "start"                          -> "bus2Wire"
      [] o = "powerUp"                        -> "pu_get1"
      [] o = "powerDown"                      -> "pd_get"
      [] o = "setChannel"                     -> "sc_get"
      [] o \in {"incChannel", "decChannel"}   -> "ic_get"
      [] o = "getChannel"                     -> "gc_get"
      [] o \in {"seekUp", "seekDown"}         -> "sk_get"
      [] o = "setVolume"                      -> "sv_get"
      [] o \in {"incVolume", "decVolume"}     -> "iv_get"
      [] o = "getVolume"                      -> "gv_get"
      [] o \in {"setMono", "setMute", "setVolExt", "writeGPIO"} -> "set_get"
      [] o \in Getters                        -> "get_get"
      [] o \in BandGetters                    -> "band_get"

\* A public function is called.  Everything but start and the band getters
\* talks to the bus, which start's bus2Wire brings up.
Invoke ==
    /\ pc = "idle"
    /\ ncalls < (IF ValidBand(_band) /\ ValidSpace(_space)
                 THEN MaxCalls ELSE MaxCallsOutOfRange)
    /\ \E c \in Calls :
         /\ (c.op \notin BandGetters \cup {"start"}) => wireBegun
         /\ op' = c.op
         /\ arg' = c.arg
         /\ arg2' = c.arg2
         /\ pc' = Entry(c.op)
         /\ freq' = IF c.op = "setChannel" THEN c.arg ELSE 0
         /\ volume' = IF c.op = "setVolume" THEN c.arg ELSE 0
         /\ afterDown' = CASE c.op = "start" -> "no"
                           [] c.op = "powerUp" /\ afterDown = "down" -> "powerUp"
                           [] OTHER -> afterDown
    /\ ncalls' = ncalls + 1
    /\ ret' = 0
    /\ UNCHANGED <<ctorVars, bandVars, shadow, wireBegun, sfbl, dev, lastTx,
                   devAtRead, started, lastSet, lastDone, busLog>>

\* No transaction on the bus yet, in the call in progress.
NoTx == [kind |-> "none", bytes |-> <<>>]

\* The call returns to its caller.
Return ==
    /\ pc = "return"
    /\ pc' = "idle"
    /\ op' = "none"
    /\ arg' = 0
    /\ arg2' = 0
    /\ freq' = 0
    /\ volume' = 0
    /\ sfbl' = FALSE
    /\ ret' = 0
    /\ lastSet' = IF op = "setChannel" THEN {arg} ELSE {}
    /\ lastDone' = IF op \in {"start", "powerDown", "setMute"}
                   THEN <<op, arg>> ELSE <<"none", 0>>
    /\ busLog' = <<>>
    /\ lastTx' = NoTx
    /\ devAtRead' = DevReset
    /\ UNCHANGED <<ctorVars, bandVars, shadow, wireBegun, ncalls, dev, started,
                   afterDown>>

(***************************************************************************)
(* start, powerUp, powerDown.                                              *)
(***************************************************************************)
\* bus2Wire: the reset pulse with SDIO low, then Wire.begin.
bus2Wire ==
    /\ pc = "bus2Wire"
    /\ dev' = DevReset
    /\ wireBegun' = TRUE
    /\ pc' = "pu_get1"
    /\ UNCHANGED <<ctorVars, bandVars, shadow, callVars, localVars, ret, ncalls,
                   lastTx, devAtRead, histVars, busLog>>

powerUp_get1 ==
    /\ pc = "pu_get1"
    /\ BusRead
    /\ pc' = "pu_put1"
    /\ UNCHANGED <<ctorVars, bandVars, wireBegun, callVars, localVars, ret,
                   ncalls, histVars>>

\* XOSCEN = 1; putShadow(); delay(500).
powerUp_put1 ==
    /\ pc = "pu_put1"
    /\ BusWrite(powerUpOsc(shadow))
    /\ pc' = "pu_get2"
    /\ UNCHANGED <<ctorVars, bandVars, wireBegun, callVars, localVars, ret,
                   ncalls, histVars>>

\* Variant of powerUp_get2: the second half goes on with the shadow it has.
powerUp_get2_noRead ==
    /\ pc = "pu_get2"
    /\ pc' = "pu_put2"
    /\ UNCHANGED <<ctorVars, bandVars, shadow, wireBegun, callVars, localVars,
                   ret, ncalls, dev, lastTx, devAtRead, histVars, busLog>>

powerUp_get2 ==
    /\ pc = "pu_get2"
    /\ BusRead
    /\ pc' = "pu_put2"
    /\ UNCHANGED <<ctorVars, bandVars, wireBegun, callVars, localVars, ret,
                   ncalls, histVars>>

\* ENABLE = 1, DISABLE = 0, DMUTE = 1; putShadow(); delay(110).  powerUp
\* returns: into start, or to the caller.
powerUp_put2 ==
    /\ pc = "pu_put2"
    /\ BusWrite(powerUpEnable(shadow))
    /\ pc' = IF op = "start" THEN "st_get" ELSE "return"
    /\ UNCHANGED <<ctorVars, bandVars, wireBegun, callVars, localVars, ret,
                   ncalls, histVars>>

start_get ==
    /\ pc = "st_get"
    /\ BusRead
    /\ pc' = "st_put"
    /\ UNCHANGED <<ctorVars, bandVars, wireBegun, callVars, localVars, ret,
                   ncalls, histVars>>

\* setRegion(_band, _space, _de), the configuration fields, putShadow().
start_put ==
    /\ pc = "st_put"
    /\ _bandStart' = setRegionStart(_band, _bandStart)
    /\ _bandEnd' = setRegionEnd(_band, _bandEnd)
    /\ _bandSpacing' = setRegionSpacing(_space, _bandSpacing)
    /\ BusWrite(startRegs(shadow, _band, _space))
    /\ pc' = "return"
    /\ started' = TRUE
    /\ UNCHANGED <<ctorVars, wireBegun, callVars, localVars, ret, ncalls,
                   afterDown, lastSet, lastDone>>

powerDown_get ==
    /\ pc = "pd_get"
    /\ BusRead
    /\ pc' = "pd_put"
    /\ UNCHANGED <<ctorVars, bandVars, wireBegun, callVars, localVars, ret,
                   ncalls, histVars>>

\* The power-down fields, putShadow(), delay(2).
powerDown_put ==
    /\ pc = "pd_put"
    /\ BusWrite(powerDownRegs(shadow))
    /\ pc' = "return"
    /\ afterDown' = "down"
    /\ UNCHANGED <<ctorVars, bandVars, wireBegun, callVars, localVars, ret,
                   ncalls, started, lastSet, lastDone>>

(***************************************************************************)
(* Mono, mute, extended volume, GPIO, and the read-only accessors.         *)
(***************************************************************************)
\* The shadow a single-field mutator writes back.
SetterRegs(sh, o, a, a2) ==
    CASE o = "setMono"   -> setMonoRegs(sh, a)
      [] o = "setMute"   -> setMuteRegs(sh, a)
      [] o = "setVolExt" -> setVolExtRegs(sh, a)
      [] o = "writeGPIO" -> writeGPIORegs(sh, a, a2)

setter_get ==
    /\ pc = "set_get"
    /\ BusRead
    /\ pc' = "set_put"
    /\ UNCHANGED <<ctorVars, bandVars, wireBegun, callVars, localVars, ret,
                   ncalls, histVars>>

setter_put ==
    /\ pc = "set_put"
    /\ BusWrite(SetterRegs(shadow, op, arg, arg2))
    /\ pc' = "return"
    /\ UNCHANGED <<ctorVars, bandVars, wireBegun, callVars, localVars, ret,
                   ncalls, histVars>>

\* getMono, getMute, getVolExt, getST, getRSSI, getPN, getMFGID, getREV,
\* getDEV, getFIRMWARE: getShadow(), return the field.
getter_get ==
    /\ pc = "get_get"
    /\ BusRead
    /\ ret' = Get(shadow', GetterField[op])
    /\ pc' = "return"
    /\ UNCHANGED <<ctorVars, bandVars, wireBegun, callVars, localVars, ncalls,
                   histVars>>

\* getBandStart, getBandEnd, getBandSpace: the cached field, no bus traffic.
band_get ==
    /\ pc = "band_get"
    /\ ret' = CASE op = "getBandStart" -> _bandStart
                [] op = "getBandEnd"   -> _bandEnd
                [] op = "getBandSpace" -> _bandSpacing
    /\ pc' = "return"
    /\ UNCHANGED <<ctorVars, bandVars, shadow, wireBegun, callVars, localVars,
                   ncalls, dev, lastTx, devAtRead, histVars, busLog>>

(***************************************************************************)
(* Volume.                                                                 *)
(***************************************************************************)
\* incVolume / decVolume: getVolume() and the argument of setVolume.
incdecVolume_get ==
    /\ pc = "iv_get"
    /\ BusRead
    /\ volume' = Get(shadow', "VOLUME") + (IF op = "incVolume" THEN 1 ELSE -1)
    /\ pc' = "sv_get"
    /\ UNCHANGED <<ctorVars, bandVars, wireBegun, callVars, freq, sfbl, ret,
                   ncalls, histVars>>

setVolume_get ==
    /\ pc = "sv_get"
    /\ BusRead
    /\ pc' = "sv_put"
    /\ UNCHANGED <<ctorVars, bandVars, wireBegun, callVars, localVars, ret,
                   ncalls, histVars>>

\* The clamp, VOLUME = volume, putShadow().
setVolume_put ==
    /\ pc = "sv_put"
    /\ volume' = ClampVolume(volume)
    /\ BusWrite(setVolumeRegs(shadow, volume))
    /\ pc' = "gv_get"
    /\ UNCHANGED <<ctorVars, bandVars, wireBegun, callVars, freq, sfbl, ret,
                   ncalls, histVars>>

\* getVolume, called by the user or as setVolume's return expression.
getVolume_get ==
    /\ pc = "gv_get"
    /\ BusRead
    /\ ret' = Get(shadow', "VOLUME")
    /\ pc' = "return"
    /\ UNCHANGED <<ctorVars, bandVars, wireBegun, callVars, localVars, ncalls,
                   histVars>>

(***************************************************************************)
(* Channel.                                                                *)
(***************************************************************************)
\* getChannel, called by the user or as the return expression of setChannel
\* and seek.
getChannel_get ==
    /\ pc = "gc_get"
    /\ BusRead
    /\ ret' = FreqOf(shadow', _bandStart, _bandSpacing)
    /\ pc' = "return"
    /\ UNCHANGED <<ctorVars, bandVars, wireBegun, callVars, localVars, ncalls,
                   histVars>>

\* incChannel / decChannel: getChannel() and the argument of setChannel.
incdecChannel_get ==
    /\ pc = "ic_get"
    /\ BusRead
    /\ freq' = FreqOf(shadow', _bandStart, _bandSpacing)
               + (IF op = "incChannel" THEN _bandSpacing ELSE -_bandSpacing)
    /\ pc' = "sc_get"
    /\ UNCHANGED <<ctorVars, bandVars, wireBegun, callVars, volume, sfbl, ret,
                   ncalls, histVars>>

\* Variant of setChannel_get: the frequency is used as it was passed.
setChannel_get_noClamp ==
    /\ pc = "sc_get"
    /\ freq' = freq
    /\ BusRead
    /\ pc' = "sc_tune"
    /\ UNCHANGED <<ctorVars, bandVars, wireBegun, callVars, volume, sfbl, ret,
                   ncalls, histVars>>

\* setChannel: the clamp, then getShadow().
setChannel_get ==
    /\ pc = "sc_get"
    /\ freq' = ClampFreq(freq, _bandStart, _bandEnd)
    /\ BusRead
    /\ pc' = "sc_tune"
    /\ UNCHANGED <<ctorVars, bandVars, wireBegun, callVars, volume, sfbl, ret,
                   ncalls, histVars>>

\* CHAN = (freq - _bandStart) / _bandSpacing, TUNE = 1, putShadow(), and the
\* choice of the wait by STCIEN.  With _bandSpacing = 0 the division is
\* undefined: where it does not trap it leaves 0 or -1.
setChannel_tune ==
    /\ pc = "sc_tune"
    /\ \E chan \in (IF _bandSpacing = 0 THEN {0, -1}
                    ELSE {ChanOf(freq, _bandStart, _bandSpacing)}) :
         BusWrite(tuneRegs(shadow, chan))
    /\ pc' = IF Get(shadow', "STCIEN") = 0 THEN "sc_wait1" ELSE "sc_get2"
    /\ UNCHANGED <<ctorVars, bandVars, wireBegun, callVars, localVars, ret,
                   ncalls, histVars>>

\* The division by zero traps (ESP32: IntegerDivideByZero).
setChannel_trap ==
    /\ pc = "sc_tune"
    /\ _bandSpacing = 0
    /\ pc' = "trap"
    /\ UNCHANGED <<ctorVars, bandVars, shadow, wireBegun, callVars, localVars,
                   ret, ncalls, dev, lastTx, devAtRead, histVars, busLog>>

\* Variant of setChannel_wait1: one poll, then on regardless of STC.
setChannel_wait1_once ==
    /\ pc = "sc_wait1"
    /\ BusRead
    /\ pc' = "sc_get2"
    /\ UNCHANGED <<ctorVars, bandVars, wireBegun, callVars, localVars, ret,
                   ncalls, histVars>>

\* while (!getSTC()) {}
setChannel_wait1 ==
    /\ pc = "sc_wait1"
    /\ BusRead
    /\ pc' = IF Get(shadow', "STC") = 1 THEN "sc_get2" ELSE "sc_wait1"
    /\ UNCHANGED <<ctorVars, bandVars, wireBegun, callVars, localVars, ret,
                   ncalls, histVars>>

setChannel_get2 ==
    /\ pc = "sc_get2"
    /\ BusRead
    /\ pc' = "sc_untune"
    /\ UNCHANGED <<ctorVars, bandVars, wireBegun, callVars, localVars, ret,
                   ncalls, histVars>>

\* Variant of setChannel_untune: the shadow is written back with TUNE as read.
setChannel_untune_keepTune ==
    /\ pc = "sc_untune"
    /\ BusWrite(shadow)
    /\ pc' = "sc_wait0"
    /\ UNCHANGED <<ctorVars, bandVars, wireBegun, callVars, localVars, ret,
                   ncalls, histVars>>

\* TUNE = 0; putShadow().
setChannel_untune ==
    /\ pc = "sc_untune"
    /\ BusWrite(Put(shadow, "TUNE", 0))
    /\ pc' = "sc_wait0"
    /\ UNCHANGED <<ctorVars, bandVars, wireBegun, callVars, localVars, ret,
                   ncalls, histVars>>

\* Variant of setChannel_wait0: one poll, then on regardless of STC.
setChannel_wait0_once ==
    /\ pc = "sc_wait0"
    /\ BusRead
    /\ pc' = "gc_get"
    /\ UNCHANGED <<ctorVars, bandVars, wireBegun, callVars, localVars, ret,
                   ncalls, histVars>>

\* while (getSTC()) {}; then return getChannel().
setChannel_wait0 ==
    /\ pc = "sc_wait0"
    /\ BusRead
    /\ pc' = IF Get(shadow', "STC") = 1 THEN "sc_wait0" ELSE "gc_get"
    /\ UNCHANGED <<ctorVars, bandVars, wireBegun, callVars, localVars, ret,
                   ncalls, histVars>>

(***************************************************************************)
(* Seek.                                                                   *)
(***************************************************************************)
seek_get ==
    /\ pc = "sk_get"
    /\ BusRead
    /\ pc' = "sk_seek"
    /\ UNCHANGED <<ctorVars, bandVars, wireBegun, callVars, localVars, ret,
                   ncalls, histVars>>

\* SEEKUP = seekDirection, SEEK = 1, putShadow().
seek_seek ==
    /\ pc = "sk_seek"
    /\ BusWrite(seekRegs(shadow, IF op = "seekUp" THEN SEEK_UP ELSE SEEK_DOWN))
    /\ pc' = IF Get(shadow', "STCIEN") = 0 THEN "sk_wait1" ELSE "sk_get2"
    /\ UNCHANGED <<ctorVars, bandVars, wireBegun, callVars, localVars, ret,
                   ncalls, histVars>>

\* while (!getSTC()) { delay(40); }
seek_wait1 ==
    /\ pc = "sk_wait1"
    /\ BusRead
    /\ pc' = IF Get(shadow', "STC") = 1 THEN "sk_get2" ELSE "sk_wait1"
    /\ UNCHANGED <<ctorVars, bandVars, wireBegun, callVars, localVars, ret,
                   ncalls, histVars>>

\* getShadow(); bool sfbl = SFBL.
seek_get2 ==
    /\ pc = "sk_get2"
    /\ BusRead
    /\ sfbl' = (Get(shadow', "SFBL") = 1)
    /\ pc' = "sk_unseek"
    /\ UNCHANGED <<ctorVars, bandVars, wireBegun, callVars, freq, volume, ret,
                   ncalls, histVars>>

\* SEEK = 0; putShadow().
seek_unseek ==
    /\ pc = "sk_unseek"
    /\ BusWrite(Put(shadow, "SEEK", 0))
    /\ pc' = "sk_wait0"
    /\ UNCHANGED <<ctorVars, bandVars, wireBegun, callVars, localVars, ret,
                   ncalls, histVars>>

\* Variant of seekExit: the failure flag is not looked at.
seekExit_ignoreFail(failed) ==
    "gc_get"

\* Where seek goes once STC has read 0: return 0 on failure, else
\* return getChannel().
seekExit(failed) ==
    IF failed THEN "return" ELSE "gc_get"

\* Variant of seek_wait0: the flag is taken again from each poll.
seek_wait0_resample ==
    /\ pc = "sk_wait0"
    /\ BusRead
    /\ sfbl' = (Get(shadow', "SFBL") = 1)
    /\ pc' = IF Get(shadow', "STC") = 1 THEN "sk_wait0" ELSE seekExit(sfbl')
    /\ ret' = 0
    /\ UNCHANGED <<ctorVars, bandVars, wireBegun, callVars, freq, volume,
                   ncalls, histVars>>

\* while (getSTC()) {}; if (sfbl) return 0; return getChannel();
seek_wait0 ==
    /\ pc = "sk_wait0"
    /\ BusRead
    /\ pc' = IF Get(shadow', "STC") = 1 THEN "sk_wait0" ELSE seekExit(sfbl)
    /\ ret' = 0
    /\ UNCHANGED <<ctorVars, bandVars, wireBegun, callVars, localVars, ncalls,
                   histVars>>

(***************************************************************************)
(* The chip's own steps.                                                   *)
(***************************************************************************)
\* The highest channel index of the band and spacing the chip is set to.
DevTopChan(d) ==
    LET width == CASE DevGet(d, "BAND") = BAND_JPW -> 3200
                   [] DevGet(d, "BAND") = BAND_JP  -> 1400
                   [] OTHER                        -> 2050
        step  == CASE DevGet(d, "SPACE") = SPACE_100KHz -> 10
                   [] DevGet(d, "SPACE") = SPACE_50KHz  -> 5
                   [] OTHER                             -> 20
    IN  width \div step

\* A tune completes: the chip latches CHAN into READCHAN and raises STC.
DevTuneComplete ==
    /\ DevPowered(dev)
    /\ DevGet(dev, "TUNE") = 1
    /\ DevGet(dev, "STC") = 0
    /\ dev' = DevPut(DevPut(dev, "READCHAN", DevGet(dev, "CHAN")), "STC", 1)
    /\ UNCHANGED <<ctorVars, bandVars, shadow, wireBegun, pc, callVars,
                   localVars, ret, ncalls, lastTx, devAtRead, histVars, busLog>>

\* A seek completes: on some channel, with or without SFBL, STC raised.
DevSeekComplete ==
    /\ DevPowered(dev)
    /\ DevGet(dev, "SEEK") = 1
    /\ DevGet(dev, "TUNE") = 0
    /\ DevGet(dev, "STC") = 0
    /\ \E fail \in {0, 1}, ch \in {0, DevTopChan(dev)} :
         dev' = DevPut(DevPut(DevPut(dev, "READCHAN", ch), "SFBL", fail),
                       "STC", 1)
    /\ UNCHANGED <<ctorVars, bandVars, shadow, wireBegun, pc, callVars,
                   localVars, ret, ncalls, lastTx, devAtRead, histVars, busLog>>

\* With SEEK and TUNE both low again the chip clears STC and SFBL.
DevClearSTC ==
    /\ DevGet(dev, "STC") = 1
    /\ DevGet(dev, "TUNE") = 0
    /\ DevGet(dev, "SEEK") = 0
    /\ dev' = DevPut(DevPut(dev, "STC", 0), "SFBL", 0)
    /\ UNCHANGED <<ctorVars, bandVars, shadow, wireBegun, pc, callVars,
                   localVars, ret, ncalls, lastTx, devAtRead, histVars, busLog>>

(***************************************************************************)
(* The specification.                                                      *)
(***************************************************************************)
Next ==
    \/ Invoke
    \/ Return
    \/ bus2Wire
    \/ powerUp_get1
    \/ powerUp_put1
    \/ powerUp_get2
    \/ powerUp_put2
    \/ start_get
    \/ start_put
    \/ powerDown_get
    \/ powerDown_put
    \/ setter_get
    \/ setter_put
    \/ getter_get
    \/ band_get
    \/ incdecVolume_get
    \/ setVolume_get
    \/ setVolume_put
    \/ getVolume_get
    \/ getChannel_get
    \/ incdecChannel_get
    \/ setChannel_get
    \/ setChannel_tune
    \/ setChannel_trap
    \/ setChannel_wait1
    \/ setChannel_get2
    \/ setChannel_untune
    \/ setChannel_wait0
    \/ seek_get
    \/ seek_seek
    \/ seek_wait1
    \/ seek_get2
    \/ seek_unseek
    \/ seek_wait0
    \/ DevTuneComplete
    \/ DevSeekComplete
    \/ DevClearSTC

Spec == Init /\ [][Next]_vars

(***************************************************************************)
(* The same program with a processor that keeps running and a chip that    *)
(* keeps working: a call in progress takes its next step, and the chip     *)
(* completes a tune or seek it was given and drops STC once the command    *)
(* bit is back at 0.  The controllers are the default one and the one with *)
(* both selectors out of range; the calls are those of the power sequence  *)
(* and of tuning and seeking.                                              *)
(***************************************************************************)
LiveInit ==
    /\ Init
    /\ <<_band, _space>> \in {<<BAND_US_EU, SPACE_100KHz>>, <<3, 3>>}

LiveOps ==
    {"start", "powerDown", "powerUp", "setChannel", "incChannel", "decChannel",
     "seekUp", "seekDown"}

\* A call of the power sequence, of tuning or of seeking.
LiveInvoke ==
    /\ Invoke
    /\ op' \in LiveOps
    /\ op' = "setChannel" => arg' \in {9871, _bandEnd + 1}

LiveNext ==
    \/ LiveInvoke
    \/ Return
    \/ bus2Wire
    \/ powerUp_get1
    \/ powerUp_put1
    \/ powerUp_get2
    \/ powerUp_put2
    \/ start_get
    \/ start_put
    \/ powerDown_get
    \/ powerDown_put
    \/ getChannel_get
    \/ incdecChannel_get
    \/ setChannel_get
    \/ setChannel_tune
    \/ setChannel_trap
    \/ setChannel_wait1
    \/ setChannel_get2
    \/ setChannel_untune
    \/ setChannel_wait0
    \/ seek_get
    \/ seek_seek
    \/ seek_wait1
    \/ seek_get2
    \/ seek_unseek
    \/ seek_wait0
    \/ DevTuneComplete
    \/ DevSeekComplete
    \/ DevClearSTC

\* A step of the call in progress that moves it on.
DriverStep == pc # "idle" /\ LiveNext /\ pc' # pc

LiveSpec ==
    /\ LiveInit
    /\ [][LiveNext]_vars
    /\ WF_vars(DriverStep)
    /\ WF_vars(DevTuneComplete)
    /\ WF_vars(DevSeekComplete)
    /\ WF_vars(DevClearSTC)

(***************************************************************************)
(* The same program on a bus where a write may go unacknowledged:          *)
(* Wire.endTransmission() returns a non-zero status and the chip has taken *)
(* nothing.  The callers whose statement after putShadow() is their last   *)
(* are given this outcome: setMono, setMute, setVolExt, writeGPIO and      *)
(* powerDown.                                                              *)
(***************************************************************************)
\* Variant of BusWriteNack: the transmission is repeated until it gets through.
BusWriteNack_retried(sh) ==
    /\ shadow' = sh
    /\ lastTx' = [kind |-> "nack", bytes |-> putShadow(sh)]
    /\ busLog' = Logged(busLog, [kind |-> "nack", bytes |-> putShadow(sh)])
    /\ dev' = DevWrite(dev, putShadow(sh))
    /\ devAtRead' = devAtRead

\* The field assignments that give sh, then a putShadow() that the chip does
\* not acknowledge: the bytes are offered once, the registers stay.
BusWriteNack(sh) ==
    /\ shadow' = sh
    /\ lastTx' = [kind |-> "nack", bytes |-> putShadow(sh)]
    /\ busLog' = Logged(busLog, [kind |-> "nack", bytes |-> putShadow(sh)])
    /\ dev' = dev
    /\ devAtRead' = devAtRead

\* setMono, setMute, setVolExt, writeGPIO: putShadow()'s status is dropped.
setter_put_nack ==
    /\ pc = "set_put"
    /\ BusWriteNack(SetterRegs(shadow, op, arg, arg2))
    /\ pc' = "return"
    /\ UNCHANGED <<ctorVars, bandVars, wireBegun, callVars, localVars, ret,
                   ncalls, histVars>>

\* powerDown: putShadow()'s status is dropped, delay(2), return.
powerDown_put_nack ==
    /\ pc = "pd_put"
    /\ BusWriteNack(powerDownRegs(shadow))
    /\ pc' = "return"
    /\ afterDown' = "down"
    /\ UNCHANGED <<ctorVars, bandVars, wireBegun, callVars, localVars, ret,
                   ncalls, started, lastSet, lastDone>>

FaultInit == LiveInit

FaultNext ==
    \/ Next
    \/ setter_put_nack
    \/ powerDown_put_nack

FaultSpec == FaultInit /\ [][FaultNext]_vars

(***************************************************************************)
(* The same program with a second master on the bus (another controller    *)
(* object, another processor).  During a call of this driver it reads the  *)
(* chip, sets the volume, and writes the control registers back, all in    *)
(* one go of its own; it does so at most once per call of this driver.     *)
(***************************************************************************)
\* The volumes the other master sets.
OtherVolumes == {5}

\* The bytes the other master writes: the registers as they are, with its
\* volume.
OtherBytes(d, v) ==
    putShadow(Put(getShadow(DevRead(d)), "VOLUME", v))

OtherAgentWrite ==
    /\ pc # "idle"
    /\ busLog # <<>>
    /\ \A i \in 1 .. Len(busLog) : busLog[i].kind # "other"
    /\ \E v \in OtherVolumes :
         /\ DevGet(dev, "VOLUME") # v
         /\ dev' = DevWrite(dev, OtherBytes(dev, v))
         /\ busLog' = Append(busLog, [kind |-> "other", bytes |-> OtherBytes(dev, v)])
    /\ UNCHANGED <<ctorVars, bandVars, shadow, wireBegun, pc, callVars,
                   localVars, ret, ncalls, lastTx, devAtRead, histVars>>

\* The controller with the constructor's defaults.
AgentInit ==
    /\ Init
    /\ _band = BAND_US_EU
    /\ _space = SPACE_100KHz

AgentOps ==
    {"start", "setMono", "setMute", "setVolExt", "setVolume", "writeGPIO",
     "getVolume", "incVolume", "decVolume"}

\* A call of start, of a single-field mutator or of a volume function.
AgentInvoke ==
    /\ Invoke
    /\ op' \in AgentOps

AgentNext ==
    \/ AgentInvoke
    \/ Return
    \/ bus2Wire
    \/ powerUp_get1
    \/ powerUp_put1
    \/ powerUp_get2
    \/ powerUp_put2
    \/ start_get
    \/ start_put
    \/ setter_get
    \/ setter_put
    \/ incdecVolume_get
    \/ setVolume_get
    \/ setVolume_put
    \/ getVolume_get
    \/ OtherAgentWrite

AgentSpec == AgentInit /\ [][AgentNext]_vars

(***************************************************************************)
(* The same program for each of the nine controllers with a band and a     *)
(* spacing of the table, and the calls that tune: start, setChannel,       *)
(* incChannel, decChannel, seekUp, seekDown.                               *)
(***************************************************************************)
BandConfigs ==
    {<<b, s>> : b \in {BAND_US_EU, BAND_JPW, BAND_JP},
                s \in {SPACE_200KHz, SPACE_100KHz, SPACE_50KHz}}

BandInit == Constructed(BandConfigs)

BandOps ==
    {"start", "setChannel", "incChannel", "decChannel", "seekUp", "seekDown"}

\* A call of start or of a tuning function; setChannel with a frequency
\* above the band and with one inside every band, off the 200 kHz grid.
BandInvoke ==
    /\ Invoke
    /\ op' \in BandOps
    /\ op' = "setChannel" => arg' \in {_bandEnd + 1, 8800}

BandNext ==
    \/ BandInvoke
    \/ Return
    \/ bus2Wire
    \/ powerUp_get1
    \/ powerUp_put1
    \/ powerUp_get2
    \/ powerUp_put2
    \/ start_get
    \/ start_put
    \/ getChannel_get
    \/ incdecChannel_get
    \/ setChannel_get
    \/ setChannel_tune
    \/ setChannel_wait1
    \/ setChannel_get2
    \/ setChannel_untune
    \/ setChannel_wait0
    \/ seek_get
    \/ seek_seek
    \/ seek_wait1
    \/ seek_get2
    \/ seek_unseek
    \/ seek_wait0
    \/ DevTuneComplete
    \/ DevSeekComplete
    \/ DevClearSTC

BandSpec == BandInit /\ [][BandNext]_vars

(***************************************************************************)
(* setChannel as a function of its argument: each of the nine controllers  *)
(* is started and then asked for frequencies from all over the range of    *)
(* int.                                                                    *)
(***************************************************************************)
\* The arguments: the ends of a 16-bit and of a 32-bit int, zero and its
\* neighbour, both band limits and their neighbours, the first channel
\* boundary and the frequency before it, a frequency inside every band.
ClampArgs ==
    {-2147483647, -32768, -1, 0, 32767, 2147483647, 8800}
    \cup {_bandStart + d : d \in {-1, 0, _bandSpacing - 1, _bandSpacing}}
    \cup {_bandEnd + d : d \in {-1, 0, 1}}

\* The first call is start.
ClampStart ==
    /\ ncalls = 0
    /\ Invoke
    /\ op' = "start"

\* setChannel(f) on the started controller.
ClampInvoke ==
    /\ pc = "idle"
    /\ started
    /\ ncalls < 1 + MaxTunes
    /\ \E f \in ClampArgs :
         /\ arg' = f
         /\ freq' = f
    /\ op' = "setChannel"
    /\ arg2' = 0
    /\ pc' = Entry("setChannel")
    /\ ncalls' = ncalls + 1
    /\ ret' = 0
    /\ UNCHANGED <<ctorVars, bandVars, shadow, wireBegun, volume, sfbl, dev,
                   lastTx, devAtRead, histVars, busLog>>

ClampNext ==
    \/ ClampStart
    \/ ClampInvoke
    \/ Return
    \/ bus2Wire
    \/ powerUp_get1
    \/ powerUp_put1
    \/ powerUp_get2
    \/ powerUp_put2
    \/ start_get
    \/ start_put
    \/ getChannel_get
    \/ setChannel_get
    \/ setChannel_tune
    \/ setChannel_wait1
    \/ setChannel_get2
    \/ setChannel_untune
    \/ setChannel_wait0
    \/ DevTuneComplete
    \/ DevClearSTC

ClampSpec == BandInit /\ [][ClampNext]_vars

(***************************************************************************)
(* The same program on a bus where the write that carries the tune or seek *)
(* command may go unacknowledged.  The controller is the one with the      *)
(* constructor's defaults; the calls are start and the tuning functions.   *)
(***************************************************************************)
\* Variant of setChannel_tune_nack: the status of putShadow() is looked at
\* and the call gives up.
setChannel_tune_nack_detected ==
    /\ pc = "sc_tune"
    /\ _bandSpacing # 0
    /\ BusWriteNack(tuneRegs(shadow, ChanOf(freq, _bandStart, _bandSpacing)))
    /\ pc' = "return"
    /\ UNCHANGED <<ctorVars, bandVars, wireBegun, callVars, localVars, ret,
                   ncalls, histVars>>

\* setChannel: CHAN, TUNE = 1, and a putShadow() that is not acknowledged;
\* the status is dropped and the wait is chosen as ever.
setChannel_tune_nack ==
    /\ pc = "sc_tune"
    /\ _bandSpacing # 0
    /\ BusWriteNack(tuneRegs(shadow, ChanOf(freq, _bandStart, _bandSpacing)))
    /\ pc' = IF Get(shadow', "STCIEN") = 0 THEN "sc_wait1" ELSE "sc_get2"
    /\ UNCHANGED <<ctorVars, bandVars, wireBegun, callVars, localVars, ret,
                   ncalls, histVars>>

\* seek: SEEKUP, SEEK = 1, and a putShadow() that is not acknowledged.
seek_seek_nack ==
    /\ pc = "sk_seek"
    /\ BusWriteNack(seekRegs(shadow, IF op = "seekUp" THEN SEEK_UP ELSE SEEK_DOWN))
    /\ pc' = IF Get(shadow', "STCIEN") = 0 THEN "sk_wait1" ELSE "sk_get2"
    /\ UNCHANGED <<ctorVars, bandVars, wireBegun, callVars, localVars, ret,
                   ncalls, histVars>>

HangInit == Constructed({<<BAND_US_EU, SPACE_100KHz>>})

HangNext ==
    \/ BandNext
    \/ setChannel_tune_nack
    \/ seek_seek_nack

HangSpec == HangInit /\ [][HangNext]_vars

(***************************************************************************)
(* Properties.                                                             *)
(***************************************************************************)
ValidCfg == ValidBand(_band) /\ ValidSpace(_space)

InBand(f) == _bandStart <= f /\ f <= _bandEnd

\* bandStart + spacing * floor((f - bandStart) / spacing).
Truncated(f) == _bandStart + _bandSpacing * ((f - _bandStart) \div _bandSpacing)

\* The k-th word of the last transaction, k = 1, 2, ...
TxWord(k) == lastTx.bytes[2 * k - 1] * 256 + lastTx.bytes[2 * k]

\* The writable control registers in ascending address order, 0x02 .. 0x07.
ControlRegs ==
    <<"POWERCFG", "CHANNEL", "SYSCONFIG1", "SYSCONFIG2", "SYSCONFIG3", "TEST1">>

SeekOps == {"seekUp", "seekDown"}

VolumeOps == {"setVolume", "incVolume", "decVolume"}

\* C1: after start with valid selectors, setChannel(freq) with freq inside the
\* band returns bandStart + spacing * floor((freq - bandStart) / spacing), and
\* so does a getChannel() called right after it; with the defaults 9870 gives
\* 9870 and 9871 gives 9870.
C1_RoundTripTruncates ==
    (started /\ ValidCfg /\ pc = "return") =>
        /\ (op = "setChannel" /\ InBand(arg)) => ret = Truncated(arg)
        /\ op = "getChannel" =>
             \A f \in lastSet : InBand(f) => ret = Truncated(f)
        /\ (op = "setChannel" /\ _band = BAND_US_EU /\ _space = SPACE_100KHz
              /\ arg \in {9870, 9871}) => ret = 9870

\* C1 witness: start, setChannel(9871), getChannel() with the default band
\* and spacing, getChannel returning 9870.
C1_Witness ==
    /\ started /\ _band = BAND_US_EU /\ _space = SPACE_100KHz
    /\ pc = "return" /\ op = "getChannel"
    /\ lastSet = {9871} /\ ret = 9870

\* C2: setChannel clamps first: called with freq < bandStart it works on
\* bandStart, writes bandStart's channel index (0) with TUNE = 1 and every
\* other control word as read, and returns what setChannel(bandStart) returns;
\* called with freq > bandEnd it does all that for bandEnd.
C2_ClampsFirst ==
    LET target == IF arg < _bandStart \/ _bandEnd < _bandStart
                  THEN _bandStart ELSE _bandEnd
        index  == ((target - _bandStart) \div _bandSpacing) % 1024
    IN  (op = "setChannel" /\ (arg < _bandStart \/ arg > _bandEnd)) =>
          /\ pc \in {"sc_tune", "sc_wait1", "sc_get2", "sc_untune", "sc_wait0"}
               => freq = target
          /\ (pc = "sc_wait1" /\ lastTx.kind = "write" /\ _bandSpacing > 0) =>
               /\ FieldOf(TxWord(2), "CHAN") = index
               /\ FieldOf(TxWord(2), "TUNE") = 1
               /\ \A k \in {1, 3, 4, 5, 6} : TxWord(k) = devAtRead[k + 1]
          /\ (pc = "return" /\ _bandSpacing > 0) =>
               ret = _bandSpacing * index + _bandStart

\* C2 witness: setChannel(bandEnd + 1) has returned on a started controller.
C2_Witness ==
    /\ started /\ ValidCfg /\ pc = "return" /\ op = "setChannel"
    /\ arg = _bandEnd + 1 /\ ret = Truncated(_bandEnd)

\* C3: seek's flag is the SFBL bit of the read taken after the seek
\* completed, and when it is set seekUp/seekDown return 0 without reading the
\* channel, whatever READCHAN holds.
C3_SeekFailureReturns0 ==
    /\ pc = "sk_unseek" => (sfbl <=> DevGet(devAtRead, "SFBL") = 1)
    /\ (op \in SeekOps /\ sfbl) => pc # "gc_get"
    /\ (op \in SeekOps /\ sfbl /\ pc = "return") => ret = 0

\* C3 witness: a failed seek returns 0 while READCHAN holds another channel.
C3_Witness ==
    /\ pc = "return" /\ op = "seekUp" /\ sfbl /\ ret = 0
    /\ DevGet(dev, "READCHAN") # 0

\* C4: the VOLUME written is min(15, max(0, v)) for setVolume(v), one more
\* than the volume read but at most 15 for incVolume, one less but at least 0
\* for decVolume; it is what the call returns, and always in 0..15.
C4_VolumeClamped ==
    LET old == DevGet(devAtRead, "VOLUME")
        new == CASE op = "setVolume" -> Min(15, Max(0, arg))
                 [] op = "incVolume" -> Min(15, old + 1)
                 [] op = "decVolume" -> Max(0, old - 1)
    IN  /\ (op \in VolumeOps /\ pc = "gv_get") =>
              /\ lastTx.kind = "write"
              /\ FieldOf(TxWord(4), "VOLUME") = new
              /\ volume = new
        /\ (op \in VolumeOps /\ pc = "return") => (ret = volume /\ ret \in 0 .. 15)
        /\ DevGet(dev, "VOLUME") \in 0 .. 15

\* C4 witness: incVolume at volume 15 returns 15.
C4_Witness ==
    /\ pc = "return" /\ op = "incVolume" /\ ret = 15
    /\ DevGet(dev, "VOLUME") = 15

\* C5: every write transmits exactly 12 bytes: the shadow's words of
\* registers 0x02 .. 0x07 (POWERCFG, CHANNEL, SYSCONFIG1-3, TEST1) in that
\* order, each high byte first.
C5_WriteScope ==
    lastTx.kind = "write" =>
        /\ Len(lastTx.bytes) = 12
        /\ \A k \in 1 .. 6 :
             /\ Addr[ControlRegs[k]] = k + 1
             /\ lastTx.bytes[2 * k - 1] = shadow[Idx[ControlRegs[k]]] \div 256
             /\ lastTx.bytes[2 * k] = shadow[Idx[ControlRegs[k]]] % 256

\* C5 witness: the write of a single-field mutation (setVolume).
C5_Witness ==
    /\ lastTx.kind = "write" /\ op = "setVolume" /\ pc = "gv_get"

\* C6: a read takes 32 bytes and stores 16 big-endian words in the chip's
\* read order: indices 0-5 hold registers 0x0A-0x0F, indices 6-15 registers
\* 0x00-0x09, so each named register of the shadow holds the chip register of
\* that name and each accessor returns the field of its own register.
C6_ReadOrder ==
    lastTx.kind = "read" =>
        /\ Len(lastTx.bytes) = 32
        /\ \A i \in 0 .. 15 :
             /\ lastTx.bytes[2 * i + 1] = shadow[i] \div 256
             /\ lastTx.bytes[2 * i + 2] = shadow[i] % 256
        /\ \A i \in 0 .. 5 : shadow[i] = devAtRead[10 + i]
        /\ \A i \in 6 .. 15 : shadow[i] = devAtRead[i - 6]
        /\ \A r \in RegNames : shadow[Idx[r]] = devAtRead[Addr[r]]
        /\ (pc = "return" /\ op \in Getters) =>
             ret = DevGet(devAtRead, GetterField[op])

\* C6 witness: getPN has returned the part number of device id 0x1242.
C6_Witness ==
    /\ lastTx.kind = "read" /\ pc = "return" /\ op = "getPN" /\ ret = 1

\* C7 as claimed: the six control registers sit at shadow indices 2..7 and
\* the words a write transmits are shadow indices 2..7.
C7_ControlAt2to7 ==
    lastTx.kind = "write" =>
        /\ {Idx[ControlRegs[k]] : k \in 1 .. 6} = 2 .. 7
        /\ \A k \in 1 .. 6 : TxWord(k) = shadow[1 + k]

\* C7 amended: index 0 is the status register and index 1 the read-channel
\* register, indices 2-5 are RDS A-D, 6-7 device id and chip id, the six
\* control registers sit at indices 8..13, indices 14-15 (TEST2, BOOTCONFIG)
\* are reserved; the words a write transmits are shadow indices 8..13.
C7_ControlAt8to13 ==
    /\ lastTx.kind = "read" =>
         (shadow[0] = devAtRead[10] /\ shadow[1] = devAtRead[11])
    /\ lastTx.kind = "write" =>
         /\ Idx["STATUSRSSI"] = 0 /\ Idx["READCHAN"] = 1
         /\ {Idx[r] : r \in {"RDSA", "RDSB", "RDSC", "RDSD"}} = 2 .. 5
         /\ Idx["DEVICEID"] = 6 /\ Idx["CHIPID"] = 7
         /\ \A k \in 1 .. 6 : Idx[ControlRegs[k]] = 7 + k
         /\ Idx["TEST2"] = 14 /\ Idx["BOOTCONFIG"] = 15
         /\ Len(lastTx.bytes) = 12
         /\ \A k \in 1 .. 6 : TxWord(k) = shadow[7 + k]

\* C7 witness: powerDown's write, whose words at 8..13 differ from 2..7.
C7_Witness ==
    /\ lastTx.kind = "write" /\ op = "powerDown"
    /\ \E k \in 1 .. 6 : shadow[7 + k] # shadow[1 + k]

\* C8 as claimed: wherever a public operation reads the band configuration,
\* bandStart <= bandEnd and the spacing is 5, 10 or 20.
C8_BandConfigValid ==
    pc \in {"band_get", "gc_get", "ic_get", "sc_get", "sc_tune"} =>
        (_bandStart <= _bandEnd /\ _bandSpacing \in {5, 10, 20})

\* C9: after start the band table holds: US/EU is 8750..10800, Japan wide
\* 7600..10800, Japan 7600..9000; 200 kHz is 20, 100 kHz 10, 50 kHz 5; and
\* the three getters return these values.
C9_BandTable ==
    started =>
        /\ _band = BAND_US_EU => (_bandStart = 8750 /\ _bandEnd = 10800)
        /\ _band = BAND_JPW => (_bandStart = 7600 /\ _bandEnd = 10800)
        /\ _band = BAND_JP => (_bandStart = 7600 /\ _bandEnd = 9000)
        /\ _space = SPACE_200KHz => _bandSpacing = 20
        /\ _space = SPACE_100KHz => _bandSpacing = 10
        /\ _space = SPACE_50KHz => _bandSpacing = 5
        /\ (pc = "return" /\ op = "getBandStart") => ret = _bandStart
        /\ (pc = "return" /\ op = "getBandEnd") => ret = _bandEnd
        /\ (pc = "return" /\ op = "getBandSpace") => ret = _bandSpacing

\* C9 witness: getBandEnd returns 9000 for the Japan band at 50 kHz.
C9_Witness ==
    /\ started /\ _band = BAND_JP /\ _space = SPACE_50KHz
    /\ pc = "return" /\ op = "getBandEnd" /\ ret = 9000

\* A write carrying the powered encoding, ENABLE = 1 and DISABLE = 0.
PoweredWrite ==
    /\ lastTx.kind = "write"
    /\ FieldOf(TxWord(1), "ENABLE") = 1
    /\ FieldOf(TxWord(1), "DISABLE") = 0

\* C10 as claimed: after powerDown no write carries ENABLE = 1 and
\* DISABLE = 0 unless start has been called in between.
C10_OffUntilStart ==
    PoweredWrite => afterDown = "no"

\* C10 amended: after powerDown no write carries ENABLE = 1 and DISABLE = 0
\* unless start or the public powerUp has been called in between.
C10_OffUntilStartOrPowerUp ==
    PoweredWrite => afterDown \in {"no", "powerUp"}

\* C10 witness: a mutator (setMute) has written after powerDown, with nothing
\* resuming in between.
C10_Witness ==
    /\ afterDown = "down" /\ lastTx.kind = "write" /\ op = "setMute"

\* C11: setMute(en) writes DMUTE = en and getMute() returns the DMUTE bit as
\* read from the chip (1 is unmuted): called right after start it returns
\* true, right after powerDown false, right after setMute(en) en.
C11_MutePolarity ==
    /\ (op = "setMute" /\ pc = "return") =>
         /\ lastTx.kind = "write"
         /\ FieldOf(TxWord(1), "DMUTE") = arg
         /\ DevGet(dev, "DMUTE") = arg
    /\ (op = "getMute" /\ pc = "return") =>
         /\ ret = DevGet(devAtRead, "DMUTE")
         /\ lastDone[1] = "start" => ret = 1
         /\ lastDone[1] = "powerDown" => ret = 0
         /\ lastDone[1] = "setMute" => ret = lastDone[2]

\* C11 witness: getMute() right after a start with the constructor's
\* defaults returns true.
C11_Witness ==
    /\ _band = BAND_US_EU /\ _space = SPACE_100KHz
    /\ op = "getMute" /\ pc = "return"
    /\ lastDone = <<"start", 0>> /\ ret = 1

TuneOps == {"setChannel", "incChannel", "decChannel"}

\* The k-th word of a logged transaction.
WordOf(tx, k) == tx.bytes[2 * k - 1] * 256 + tx.bytes[2 * k]

\* The positions of the writes in the log of the call in progress.
LogWrites == {i \in 1 .. Len(busLog) : busLog[i].kind = "write"}

\* The n-th write of the log, n = 1 .. Cardinality(LogWrites).
NthWrite(n) ==
    CHOOSE i \in LogWrites : Cardinality({j \in LogWrites : j <= i}) = n

\* A read at position i of the log that shows STC = v (STATUSRSSI comes
\* first in a read).
ReadsSTC(i, v) ==
    busLog[i].kind = "read" /\ FieldOf(WordOf(busLog[i], 1), "STC") = v

\* C12: setChannel and seek have no timeout: the command-clearing write is
\* emitted, and the wait for STC = 0 is entered, only after a read that came
\* after the command write has shown STC = 1, and the call goes on to its
\* return only after a read that came after the clearing write has shown
\* STC = 0; a chip that never sets STC holds the call in its first loop for
\* ever, with the command write the only write.
C12_NoTimeout ==
    (op \in TuneOps \cup SeekOps) =>
        /\ Cardinality(LogWrites) <= 2
        /\ pc \in {"sc_wait1", "sk_wait1"} => Cardinality(LogWrites) = 1
        /\ (Cardinality(LogWrites) = 2
              \/ pc \in {"sc_get2", "sc_untune", "sk_get2", "sk_unseek"}) =>
             \E i \in NthWrite(1) + 1 .. Len(busLog) :
                 /\ ReadsSTC(i, 1)
                 /\ Cardinality(LogWrites) = 2 => i < NthWrite(2)
        /\ (pc = "return" \/ (pc = "gc_get" /\ LogWrites # {})) =>
             /\ Cardinality(LogWrites) = 2
             /\ \E i \in NthWrite(2) + 1 .. Len(busLog) : ReadsSTC(i, 0)

\* C12 witness: setChannel on a powered-down chip, which never sets STC: the
\* call polls in its first loop, a poll has read STC = 0.
C12_Witness ==
    /\ op = "setChannel" /\ pc = "sc_wait1" /\ ~DevPowered(dev)
    /\ lastTx.kind = "read" /\ ReadsSTC(Len(busLog), 0)
    /\ Cardinality(LogWrites) = 1

\* C13: the bus events of a setChannel call come in this order: reads, the
\* write with TUNE = 1 and the channel index of the clamped frequency, reads
\* showing STC = 0 and then a read showing STC = 1, only then the write with
\* TUNE = 0, reads showing STC = 1 and then a read showing STC = 0, only then
\* the readback and the return; no other write.
C13_TuneOrder ==
    (op \in TuneOps /\ started /\ LogWrites # {}) =>
        LET w1 == NthWrite(1)
            n  == Cardinality(LogWrites)
            w2 == IF n >= 2 THEN NthWrite(2) ELSE Len(busLog) + 1
        IN  /\ n <= 2
            /\ busLog[w1 - 1].kind = "read"
            /\ FieldOf(WordOf(busLog[w1], 2), "TUNE") = 1
            /\ _bandSpacing > 0 =>
                 FieldOf(WordOf(busLog[w1], 2), "CHAN")
                   = ((freq - _bandStart) \div _bandSpacing) % 1024
            /\ \A i \in w1 + 1 .. w2 - 1, j \in w1 + 1 .. w2 - 1 :
                 (ReadsSTC(i, 1) /\ i < j) => ReadsSTC(j, 1)
            /\ n = 2 =>
                 /\ ReadsSTC(w2 - 1, 1)
                 /\ FieldOf(WordOf(busLog[w2], 2), "TUNE") = 0
                 /\ \A i \in w2 + 1 .. Len(busLog), j \in w2 + 1 .. Len(busLog) :
                      (ReadsSTC(i, 0) /\ i < j) => ReadsSTC(j, 0)
            /\ pc = "return" =>
                 /\ n = 2 /\ w2 < Len(busLog)
                 /\ ReadsSTC(Len(busLog), 0)
                 /\ lastTx = busLog[Len(busLog)]
                 /\ ret = _bandSpacing * DevGet(devAtRead, "READCHAN") + _bandStart

\* C13 witness: a setChannel call has returned after both of its loops
\* polled more than once: read, tune write, STC = 0, STC = 1, clearing
\* write, STC = 1, STC = 0.
C13_Witness ==
    /\ op = "setChannel" /\ started /\ pc = "return"
    /\ Len(busLog) = 7 /\ LogWrites = {2, 5}
    /\ ReadsSTC(3, 0) /\ ReadsSTC(4, 1) /\ ReadsSTC(6, 1) /\ ReadsSTC(7, 0)

\* C14: in a seek call the flag that decides the return value is the SFBL
\* bit of the read that stands right before the SEEK-clearing write, a read
\* that shows STC = 1 and comes after the SEEK = 1 write; the call returns 0
\* exactly when that bit was set, whatever the reads after the clearing write
\* show.
C14_SfblSampledBeforeClear ==
    (op \in SeekOps /\ started /\ Cardinality(LogWrites) = 2) =>
        LET w1 == NthWrite(1)
            w2 == NthWrite(2)
            sampled == FieldOf(WordOf(busLog[w2 - 1], 1), "SFBL") = 1
        IN  /\ FieldOf(WordOf(busLog[w1], 1), "SEEK") = 1
            /\ FieldOf(WordOf(busLog[w2], 1), "SEEK") = 0
            /\ w1 < w2 - 1
            /\ ReadsSTC(w2 - 1, 1)
            /\ sfbl <=> sampled
            /\ pc = "return" =>
                 ret = IF sampled THEN 0
                       ELSE _bandSpacing * DevGet(devAtRead, "READCHAN")
                            + _bandStart

\* C14 witness: a seek returns 0 on the flag it sampled although the last
\* read, taken after the clearing write, shows SFBL = 0.
C14_Witness ==
    /\ op = "seekDown" /\ started /\ pc = "return" /\ ret = 0 /\ sfbl
    /\ Cardinality(LogWrites) = 2
    /\ FieldOf(WordOf(busLog[Len(busLog)], 1), "SFBL") = 0

\* A tune or seek call is in progress on a started controller whose chip is
\* powered up, and its division by the spacing is defined.
TuneOrSeekRunning ==
    /\ op \in TuneOps \cup SeekOps
    /\ pc \notin {"idle", "return"}
    /\ started /\ DevPowered(dev)
    /\ _bandSpacing # 0

\* C15: against a chip that completes what it is given, every setChannel,
\* incChannel, decChannel, seekUp and seekDown call made after start
\* eventually returns.
C15_CallsReturn == TuneOrSeekRunning ~> (pc = "return")

\* C15 witness: a decChannel call has returned.
C15_Witness ==
    /\ op = "decChannel" /\ pc = "return" /\ started /\ DevPowered(dev)
    /\ Cardinality(LogWrites) = 2

\* A control field as a logged write carries it.
WrittenField(tx, f) == FieldOf(WordOf(tx, Addr[Layout[f][1]] - 1), f)

\* C16: start emits exactly three writes, each after a read of its own:
\* first XOSCEN = 1 with the device still not enabled, then ENABLE = 1,
\* DISABLE = 0, DMUTE = 1, then the one configuration write; no write with
\* ENABLE = 1 comes before the XOSCEN write.
C16_StartOrder ==
    op = "start" =>
        LET n == Cardinality(LogWrites)
        IN  /\ n <= 3
            /\ pc = "return" => (n = 3 /\ Len(busLog) = 6)
            /\ \A i \in LogWrites : i > 1 /\ busLog[i - 1].kind = "read"
            /\ n >= 1 =>
                 /\ WrittenField(busLog[NthWrite(1)], "XOSCEN") = 1
                 /\ WrittenField(busLog[NthWrite(1)], "ENABLE") = 0
                 /\ \A i \in LogWrites :
                      WrittenField(busLog[i], "ENABLE") = 1 => i > NthWrite(1)
            /\ n >= 2 =>
                 /\ WrittenField(busLog[NthWrite(2)], "XOSCEN") = 1
                 /\ WrittenField(busLog[NthWrite(2)], "ENABLE") = 1
                 /\ WrittenField(busLog[NthWrite(2)], "DISABLE") = 0
                 /\ WrittenField(busLog[NthWrite(2)], "DMUTE") = 1
                 /\ WrittenField(busLog[NthWrite(2)], "SEEKTH") = 0
            /\ n = 3 =>
                 /\ WrittenField(busLog[NthWrite(3)], "ENABLE") = 1
                 /\ WrittenField(busLog[NthWrite(3)], "DISABLE") = 0
                 /\ WrittenField(busLog[NthWrite(3)], "BAND") = _band
                 /\ WrittenField(busLog[NthWrite(3)], "SPACE") = _space
                 /\ WrittenField(busLog[NthWrite(3)], "SEEKTH") = _seekth
                 /\ WrittenField(busLog[NthWrite(3)], "SKMODE") = _skmode
                 /\ WrittenField(busLog[NthWrite(3)], "RDS") = 1
                 /\ WrittenField(busLog[NthWrite(3)], "VOLUME") = 0
                 /\ WrittenField(busLog[NthWrite(3)], "STCIEN") = 0

\* C16 witness: a start, the third call made, has returned after its three
\* writes.
C16_Witness ==
    /\ op = "start" /\ pc = "return" /\ afterDown = "no" /\ started
    /\ LogWrites = {2, 4, 6} /\ ncalls = 3
    /\ DevPowered(dev)

\* C17: every write follows a read of the same call with no write in
\* between, and that read is the registers the chip held at that moment; so
\* the first write of a call has a read of that call before it and two
\* writes always have a read between them.
C17_WriteAfterFreshRead ==
    /\ \A i \in LogWrites :
         /\ i > 1
         /\ busLog[i - 1].kind = "read"
    /\ lastTx.kind = "write" =>
         /\ Len(busLog) >= 2
         /\ busLog[Len(busLog)] = lastTx
         /\ busLog[Len(busLog) - 1] = [kind |-> "read", bytes |-> DevRead(devAtRead)]

\* C17 witness: the public powerUp has returned after two writes, each with
\* its own read before it.
C17_Witness ==
    /\ op = "powerUp" /\ pc = "return"
    /\ Len(busLog) = 4 /\ LogWrites = {2, 4}

FrameOps == {"setMono", "setMute", "setVolExt", "setVolume", "writeGPIO"}

\* The one field a single-field mutator assigns, and the value it assigns.
FrameField ==
    CASE op = "setMono"   -> "MONO"
      [] op = "setMute"   -> "DMUTE"
      [] op = "setVolExt" -> "VOLEXT"
      [] op = "setVolume" -> "VOLUME"
      [] op = "writeGPIO" ->
           (CASE arg = GPIO1 -> "GPIO1" [] arg = GPIO2 -> "GPIO2"
              [] arg = GPIO3 -> "GPIO3")

FrameValue ==
    CASE op = "setVolume" -> Min(15, Max(0, arg))
      [] op = "writeGPIO" -> arg2
      [] OTHER            -> arg

\* The fields of the six control registers.
ControlFields ==
    {f \in DOMAIN Layout : Addr[Layout[f][1]] \in 2 .. 7}

\* C18: the six words written by setMono, setMute, setVolExt, setVolume and
\* writeGPIO(pin, mode), pin in 1..3, are the six control words just read
\* with the one field replaced: the five other words are equal, and the word
\* of the field differs from the word read in the bits of that field only.
C18_OnlyOwnField ==
    (op \in FrameOps /\ lastTx.kind = "write"
       /\ (op = "writeGPIO" => arg \in {GPIO1, GPIO2, GPIO3})) =>
        LET f   == FrameField
            k   == Addr[Layout[f][1]] - 1
            bit == Pow2(Layout[f][2])
        IN  /\ \A j \in 1 .. 6 : j # k => TxWord(j) = devAtRead[j + 1]
            /\ \A g \in ControlFields :
                 WrittenField(lastTx, g)
                   = IF g = f THEN FrameValue ELSE DevGet(devAtRead, g)
            /\ TxWord(k) - FrameValue * bit
                 = devAtRead[k + 1] - DevGet(devAtRead, f) * bit

\* C18 witness: writeGPIO(GPIO2, high) on a chip whose GPIO1 was set low
\* before: GPIO1 is written back as read.
C18_Witness ==
    /\ op = "writeGPIO" /\ arg = GPIO2 /\ arg2 = GPIO_High /\ pc = "return"
    /\ lastTx.kind = "write"
    /\ DevGet(devAtRead, "GPIO1") = GPIO_Low
    /\ WrittenField(lastTx, "GPIO1") = GPIO_Low
    /\ WrittenField(lastTx, "GPIO2") = GPIO_High

NackOps == {"setMono", "setMute", "setVolExt", "writeGPIO", "powerDown"}

\* C19: when a write of setMono, setMute, setVolExt, writeGPIO or powerDown
\* is not acknowledged, the bytes have been offered once and nothing follows
\* on the bus, the chip's registers are as they were at the read, the shadow
\* holds the control words that were meant to be written, and the call is at
\* its return with nothing to report.
C19_FailedWriteNotRetried ==
    lastTx.kind = "nack" =>
        /\ op \in NackOps
        /\ pc = "return" /\ ret = 0
        /\ Len(busLog) = 2
        /\ busLog[1] = [kind |-> "read", bytes |-> DevRead(devAtRead)]
        /\ busLog[2] = lastTx
        /\ dev = devAtRead
        /\ Len(lastTx.bytes) = 12
        /\ \A k \in 1 .. 6 : shadow[7 + k] = TxWord(k)
        /\ (op \in FrameOps /\ (op = "writeGPIO" => arg \in {GPIO1, GPIO2, GPIO3}))
             => Get(shadow, FrameField) = FrameValue
        /\ op = "powerDown" =>
             /\ Get(shadow, "ENABLE") = 1 /\ Get(shadow, "DISABLE") = 1
             /\ Get(shadow, "DMUTE") = 0 /\ Get(shadow, "AHIZEN") = 1

\* C19 witness: setMono(true) was not acknowledged: the shadow says mono,
\* the chip is still stereo, the call has returned.
C19_Witness ==
    /\ lastTx.kind = "nack" /\ op = "setMono" /\ arg = 1 /\ pc = "return"
    /\ Get(shadow, "MONO") = 1 /\ DevGet(dev, "MONO") = 0

\* The write step of a single-field mutator.
FrameWriteStep ==
    /\ op \in FrameOps
    /\ op = "writeGPIO" => arg \in {GPIO1, GPIO2, GPIO3}
    /\ lastTx'.kind = "write"
    /\ lastTx.kind = "read"

\* The step changes a control field of the chip other than the one the
\* mutator assigns.
OtherFieldChanged ==
    \E g \in ControlFields \ {FrameField} : DevGet(dev', g) # DevGet(dev, g)

\* C20: the read and the write of a mutator are not atomic for the chip:
\* the write of a single-field mutator changes another control field of the
\* chip only when another master has written between that mutator's read and
\* its write, and then the other master's value is replaced by the one the
\* mutator had read; with no other master no write changes another field.
C20_LostUpdateOnlyWithOtherAgent ==
    [][(FrameWriteStep /\ OtherFieldChanged) =>
          /\ busLog[Len(busLog)].kind = "other"
          /\ busLog[Len(busLog) - 1] = lastTx
          /\ DevGet(dev, "VOLUME") = WrittenField(busLog[Len(busLog)], "VOLUME")
          /\ DevGet(dev, "VOLUME") \in OtherVolumes
          /\ DevGet(dev', "VOLUME") = DevGet(devAtRead, "VOLUME")]_vars

\* C20 witness: setMono has returned; between its read and its write the
\* other master had set the volume, and the chip now holds the volume that
\* setMono had read.
C20_Witness ==
    /\ op = "setMono" /\ pc = "return" /\ Len(busLog) = 3
    /\ busLog[1].kind = "read" /\ busLog[2].kind = "other"
    /\ busLog[3] = lastTx /\ lastTx.kind = "write"
    /\ WrittenField(busLog[2], "VOLUME") \in OtherVolumes
    /\ DevGet(dev, "VOLUME") # WrittenField(busLog[2], "VOLUME")
    /\ DevGet(dev, "VOLUME") = DevGet(devAtRead, "VOLUME")
    /\ DevGet(dev, "MONO") = arg

\* The highest channel index of the controller's band.
TopChan == (_bandEnd - _bandStart) \div _bandSpacing

\* The channel the chip reported in the first read of the call in progress
\* (READCHAN comes second in a read).
FirstReadChan == FieldOf(WordOf(busLog[1], 2), "READCHAN")

\* C21: after start with a band and a spacing of the table, incChannel asks
\* setChannel for getChannel() + spacing and decChannel for getChannel() -
\* spacing; the channel index they write is one above (below) the channel
\* read, its frequency lies inside [bandStart, bandEnd], and on the highest
\* channel of the band incChannel writes, and returns, the channel it read,
\* as decChannel does on channel 0: the channel never wraps to the other
\* band edge.
C21_StepStaysInBand ==
    (op \in {"incChannel", "decChannel"} /\ started /\ ValidCfg
       /\ busLog # <<>>) =>
        LET rc   == FirstReadChan
            cur  == _bandSpacing * rc + _bandStart
            req  == IF op = "incChannel" THEN cur + _bandSpacing
                    ELSE cur - _bandSpacing
            want == IF op = "incChannel"
                    THEN (IF rc >= TopChan THEN TopChan ELSE rc + 1)
                    ELSE (IF rc = 0 THEN 0 ELSE rc - 1)
        IN  /\ rc <= TopChan
            /\ pc = "sc_get" => freq = req
            /\ pc \notin {"sc_get", "return"} =>
                 /\ InBand(freq)
                 /\ freq = (IF req > _bandEnd THEN _bandEnd
                            ELSE IF req < _bandStart THEN _bandStart ELSE req)
            /\ LogWrites # {} =>
                 LET ch == FieldOf(WordOf(busLog[NthWrite(1)], 2), "CHAN")
                 IN  /\ ch = want
                     /\ InBand(_bandStart + _bandSpacing * ch)
                     /\ (op = "incChannel" /\ rc = TopChan) => ch = rc
                     /\ (op = "decChannel" /\ rc = 0) => ch = rc
            /\ pc = "return" =>
                 /\ ret = _bandStart + _bandSpacing * want
                 /\ InBand(ret)
                 /\ DevGet(dev, "READCHAN") = want

\* C21 witness: incChannel has returned on the highest channel of the
\* US/Europe band with 200 kHz spacing, where the band end is off the grid:
\* channel 102, 107.90 MHz, before and after.
C21_Witness ==
    /\ op = "incChannel" /\ started /\ pc = "return"
    /\ _band = BAND_US_EU /\ _space = SPACE_200KHz
    /\ FirstReadChan = 102 /\ TopChan = 102
    /\ ret = 10790

\* The frequencies the index is computed for in one go: every frequency from
\* below the band to above it, and the ends of a 16-bit and a 32-bit int.
AllFreqs ==
    (_bandStart - 2 .. _bandEnd + 2)
    \cup {-2147483647, -32768, 32767, 2147483647}

\* The reserved bits 10 .. 14 of a CHANNEL word.
ChannelReserved(w) == (w \div 1024) % 32

\* C22: for each of the nine band/spacing pairs of the table and every
\* argument of setChannel, the channel index computed from the clamped
\* frequency lies in 0 .. 1023: the 10-bit CHAN field holds it uncut, and the
\* CHANNEL word written is TUNE, the reserved bits as they were read, and
\* the index.
C22_ChanFitsField ==
    (started /\ ValidCfg) =>
        /\ pc = "idle" =>
             \A f \in AllFreqs :
                 LET c == ChanOf(ClampFreq(f, _bandStart, _bandEnd),
                                 _bandStart, _bandSpacing)
                 IN  /\ c \in 0 .. 1023
                     /\ c <= TopChan
                     /\ WithField(WithField(0, "CHAN", c), "TUNE", 1)
                          = 32768 + c
        /\ (op = "setChannel" /\ pc \in {"sc_wait1", "sc_get2"}
              /\ lastTx.kind = "write") =>
             LET c == (freq - _bandStart) \div _bandSpacing
             IN  /\ freq = (IF arg > _bandEnd THEN _bandEnd
                            ELSE IF arg < _bandStart THEN _bandStart ELSE arg)
                 /\ c \in 0 .. 1023
                 /\ FieldOf(TxWord(2), "CHAN") = c
                 /\ FieldOf(TxWord(2), "TUNE") = 1
                 /\ ChannelReserved(TxWord(2))
                      = ChannelReserved(devAtRead[Addr["CHANNEL"]])
                 /\ TxWord(2) = 32768 + c
                                + 1024 * ChannelReserved(devAtRead[Addr["CHANNEL"]])

\* C22 witness: the largest index there is, 640, written whole for
\* setChannel(32767) on the wide Japan band with 50 kHz spacing.
C22_Witness ==
    /\ op = "setChannel" /\ arg = 32767 /\ started
    /\ _band = BAND_JPW /\ _space = SPACE_50KHz
    /\ pc = "sc_wait1" /\ lastTx.kind = "write"
    /\ FieldOf(TxWord(2), "CHAN") = 640
    /\ TxWord(2) = 32768 + 640

\* C23: after start with a band and a spacing of the table a seek returns 0
\* if and only if SFBL was set in the read taken before the SEEK-clearing
\* write; with SFBL clear there it returns spacing * READCHAN + bandStart of
\* its last read, which is at least bandStart and so not 0, whatever the
\* 10-bit READCHAN holds, and fits a 16-bit int.
C23_ZeroIsFailure ==
    (op \in SeekOps /\ started /\ ValidCfg /\ pc = "return") =>
        LET sampled ==
                FieldOf(WordOf(busLog[NthWrite(2) - 1], 1), "SFBL") = 1
        IN  /\ Cardinality(LogWrites) = 2
            /\ (ret = 0) <=> sampled
            /\ ~sampled =>
                 /\ lastTx.kind = "read"
                 /\ ret = _bandSpacing * FieldOf(TxWord(2), "READCHAN")
                          + _bandStart
                 /\ ret >= _bandStart
                 /\ ret # 0
            /\ \A rc \in 0 .. 1023 :
                 LET f == FreqOf(Put(shadow, "READCHAN", rc), _bandStart,
                                 _bandSpacing)
                 IN  _bandStart <= f /\ f <= 32767 /\ f # 0

\* C23 witness: a seek that succeeded on channel 0, the lowest value a
\* successful seek can return: the bottom of the Japan band, 76 MHz.
C23_Witness ==
    /\ op = "seekDown" /\ started /\ pc = "return" /\ ~sfbl
    /\ _band = BAND_JP
    /\ FieldOf(TxWord(2), "READCHAN") = 0
    /\ ret = 7600

\* The positions of the unacknowledged writes in the log of the call in
\* progress.
LogNacks == {i \in 1 .. Len(busLog) : busLog[i].kind = "nack"}

\* C24: when the write that carries TUNE = 1 (setChannel, incChannel,
\* decChannel) or SEEK = 1 (seekUp, seekDown) is not acknowledged, the chip
\* has no command and STC stays 0; the call has not noticed: it is in its
\* first wait loop and stays there, the command was offered once and is not
\* sent again, every transaction after it is a read that shows STC = 0, and
\* the call never reaches its return.
C24_FailedCommandHangs ==
    LogNacks # {} =>
        /\ op \in TuneOps \cup SeekOps
        /\ Cardinality(LogNacks) = 1
        /\ LogWrites = {}
        /\ \A i \in LogNacks :
             /\ i > 1 /\ busLog[i - 1].kind = "read"
             /\ op \in TuneOps => FieldOf(WordOf(busLog[i], 2), "TUNE") = 1
             /\ op \in SeekOps => FieldOf(WordOf(busLog[i], 1), "SEEK") = 1
             /\ \A j \in i + 1 .. Len(busLog) : ReadsSTC(j, 0)
        /\ pc = (IF op \in TuneOps THEN "sc_wait1" ELSE "sk_wait1")
        /\ pc # "return"
        /\ DevGet(dev, "TUNE") = 0
        /\ DevGet(dev, "SEEK") = 0
        /\ DevGet(dev, "STC") = 0
        /\ lastTx.kind = "read" =>
             /\ Get(shadow, "TUNE") = 0
             /\ Get(shadow, "SEEK") = 0

\* C24 witness: setChannel on a powered-up chip, the tune write was not
\* acknowledged, and the loop has polled: the read after the lost write
\* shows STC = 0 and the shadow has TUNE = 0 again.
C24_Witness ==
    /\ op = "setChannel" /\ started /\ DevPowered(dev)
    /\ pc = "sc_wait1"
    /\ Len(busLog) = 3 /\ LogNacks = {2}
    /\ lastTx.kind = "read" /\ ReadsSTC(3, 0)
    /\ Get(shadow, "TUNE") = 0

====
